---- MODULE Spec2Model ----
(***************************************************************************)
(* A model of pyfolio/volatility.py: the historical volatility estimators  *)
(* (close-to-close, Parkinson, Garman-Klass, extended Garman-Klass,        *)
(* Rogers-Satchell, Yang-Zhang) and the return/range primitives they use.  *)
(*                                                                         *)
(* NUMBERS.  Prices are powers of two (1, 2, 4), so that every price       *)
(* ratio is a power of two and its natural logarithm is an integer         *)
(* multiple of ln 2.  A value is kept exactly, as a record                 *)
(*     [nan, rt, p, a, b]                                                  *)
(* that stands for  NaN                     when nan,                      *)
(*                  (ln 2)^p * (a + b*ln 2) when ~nan /\ ~rt,              *)
(*            sqrt( (ln 2)^p * (a + b*ln 2) ) when ~nan /\ rt,             *)
(* with a and b rationals <<numerator, denominator>> in lowest terms.      *)
(* The arithmetic below is exact real arithmetic on that form; a shape     *)
(* the form cannot hold has no CASE arm, so TLC stops instead of           *)
(* computing a wrong value.  The rounding of float64 is not modelled.      *)
(*                                                                         *)
(* SERIES.  A pandas Series is a sequence of values, a DataFrame a         *)
(* sequence of columns (each a Series of the same length).  Indices are    *)
(* positional: the inputs are aligned.                                     *)
(***************************************************************************)
EXTENDS Integers, Sequences, FiniteSets

VARIABLES O, H, L, C, call, ret

vars == <<O, H, L, C, call, ret>>

(***************************************************************************)
(* Rational numbers                                                        *)
(***************************************************************************)
Abs(n) == IF n < 0 THEN -n ELSE n

RECURSIVE Gcd(_, _)
Gcd(m, n) == IF n = 0 THEN m ELSE Gcd(n, m % n)

Rat(n, d) ==
    LET g == Gcd(Abs(n), Abs(d))
        s == IF d < 0 THEN -1 ELSE 1
    IN  <<s * (n \div g), s * (d \div g)>>

R0 == Rat(0, 1)
R1 == Rat(1, 1)
RAdd(x, y) == Rat(x[1] * y[2] + y[1] * x[2], x[2] * y[2])
RNeg(x) == <<-x[1], x[2]>>
RSub(x, y) == RAdd(x, RNeg(y))
RMul(x, y) == Rat(x[1] * y[1], x[2] * y[2])
RDiv(x, y) == Rat(x[1] * y[2], x[2] * y[1])
RLess(x, y) == x[1] * y[2] < y[1] * x[2]
RSign(x) == IF x[1] > 0 THEN 1 ELSE IF x[1] < 0 THEN -1 ELSE 0

(***************************************************************************)
(* Values: NaN, (ln 2)^p * (a + b*ln 2), or the square root of one         *)
(***************************************************************************)
NaN == [nan |-> TRUE, rt |-> FALSE, p |-> 0, a |-> R0, b |-> R0]
Zero == [nan |-> FALSE, rt |-> FALSE, p |-> 0, a |-> R0, b |-> R0]

\* The canonical record of (ln 2)^p * (a + b*ln 2): a is non-zero unless
\* the value is zero.
Mk(p, a, b) ==
    IF a = R0 /\ b = R0 THEN Zero
    ELSE IF a = R0 THEN [nan |-> FALSE, rt |-> FALSE, p |-> p + 1, a |-> b, b |-> R0]
    ELSE [nan |-> FALSE, rt |-> FALSE, p |-> p, a |-> a, b |-> b]

\* A Python number n/d (an int, or a float literal such as 0.34 = 34/100).
Num(n, d) == Mk(0, Rat(n, d), R0)

\* np.log(2)
Ln2 == Mk(1, R1, R0)

\* ln 2 lies strictly between these two convergents of its continued
\* fraction; no rational with a denominator below 642 lies between them.
Ln2Low == Rat(192, 277)
Ln2High == Rat(253, 365)

\* The sign of a + b*ln 2.
SignAB(a, b) ==
    CASE b = R0 -> RSign(a)
      [] a = R0 -> RSign(b)
      [] RSign(a) = RSign(b) -> RSign(a)
      [] RSign(a) # RSign(b) /\ a # R0 /\ b # R0
            /\ ~RLess(Ln2Low, RNeg(RDiv(a, b))) ->
            \* -a/b <= Ln2Low < ln 2, so a + b*ln 2 has the sign of b
            RSign(b)
      [] RSign(a) # RSign(b) /\ a # R0 /\ b # R0
            /\ ~RLess(RNeg(RDiv(a, b)), Ln2High) ->
            \* -a/b >= Ln2High > ln 2, so a + b*ln 2 has the sign of a
            RSign(a)

Sign(x) == IF x.rt THEN 1 ELSE SignAB(x.a, x.b)

Add(x, y) ==
    CASE x.nan \/ y.nan -> NaN
      [] ~x.nan /\ ~y.nan /\ x = Zero -> y
      [] ~x.nan /\ ~y.nan /\ x # Zero /\ y = Zero -> x
      [] ~x.nan /\ ~y.nan /\ x # Zero /\ y # Zero /\ ~x.rt /\ ~y.rt /\ x.p = y.p ->
            Mk(x.p, RAdd(x.a, y.a), RAdd(x.b, y.b))
      [] ~x.nan /\ ~y.nan /\ x # Zero /\ y # Zero /\ ~x.rt /\ ~y.rt
            /\ x.p = y.p + 1 /\ x.b = R0 ->
            Mk(y.p, y.a, RAdd(y.b, x.a))
      [] ~x.nan /\ ~y.nan /\ x # Zero /\ y # Zero /\ ~x.rt /\ ~y.rt
            /\ y.p = x.p + 1 /\ y.b = R0 ->
            Mk(x.p, x.a, RAdd(x.b, y.a))

Neg(x) == IF x.nan \/ x = Zero THEN x ELSE [x EXCEPT !.a = RNeg(@), !.b = RNeg(@)]

Sub(x, y) == Add(x, Neg(y))

Mul(x, y) ==
    CASE x.nan \/ y.nan -> NaN
      [] ~x.nan /\ ~y.nan /\ (x = Zero \/ y = Zero) -> Zero
      [] ~x.nan /\ ~y.nan /\ x # Zero /\ y # Zero /\ ~x.rt /\ ~y.rt /\ y.b = R0 ->
            Mk(x.p + y.p, RMul(x.a, y.a), RMul(x.b, y.a))
      [] ~x.nan /\ ~y.nan /\ x # Zero /\ y # Zero /\ ~x.rt /\ ~y.rt
            /\ y.b # R0 /\ x.b = R0 ->
            Mk(x.p + y.p, RMul(x.a, y.a), RMul(x.a, y.b))

\* Division by a non-zero value (every divisor of the code is a row count,
\* a price, or a constant; the one integer division that can meet zero is
\* PyDiv below).
Div(x, y) ==
    CASE x.nan \/ y.nan -> NaN
      [] ~x.nan /\ ~y.nan /\ y # Zero /\ x = Zero -> Zero
      [] ~x.nan /\ ~y.nan /\ y # Zero /\ x # Zero /\ ~x.rt /\ ~y.rt
            /\ y.b = R0 /\ y.p <= x.p ->
            Mk(x.p - y.p, RDiv(x.a, y.a), RDiv(x.b, y.a))

\* np.square(x), x * x
Square(x) == Mul(x, x)

\* np.sqrt(x): NaN for a negative argument.
Sqrt(x) ==
    CASE x.nan -> NaN
      [] ~x.nan /\ ~x.rt /\ Sign(x) < 0 -> NaN
      [] ~x.nan /\ ~x.rt /\ Sign(x) = 0 -> Zero
      [] ~x.nan /\ ~x.rt /\ Sign(x) > 0 -> [x EXCEPT !.rt = TRUE]

\* x ** 2 of a value that np.sqrt returned.
Pow2(x) ==
    CASE x.nan -> NaN
      [] ~x.nan /\ x.rt -> [x EXCEPT !.rt = FALSE]
      [] ~x.nan /\ ~x.rt -> Mul(x, x)

RECURSIVE Log2Int(_)
Log2Int(n) == IF n = 1 THEN 0 ELSE 1 + Log2Int(n \div 2)

\* np.log(x) of a positive ratio of powers of two: log2(x) * ln 2.
Log(x) ==
    CASE x.nan -> NaN
      [] ~x.nan /\ ~x.rt /\ x.p = 0 /\ x.b = R0 /\ x.a[1] > 0 ->
            Mul(Num(Log2Int(x.a[1]) - Log2Int(x.a[2]), 1), Ln2)

(***************************************************************************)
(* pandas Series: elementwise arithmetic, shift, dropna and reductions     *)
(***************************************************************************)
\* s / t, elementwise on aligned Series
SDiv(s, t) == [i \in 1..Len(s) |-> Div(s[i], t[i])]
\* s * t, elementwise
SMul(s, t) == [i \in 1..Len(s) |-> Mul(s[i], t[i])]
\* np.log(s)
SLog(s) == [i \in 1..Len(s) |-> Log(s[i])]
\* np.square(s)
SSquare(s) == [i \in 1..Len(s) |-> Square(s[i])]
\* np.sqrt(s)
SSqrt(s) == [i \in 1..Len(s) |-> Sqrt(s[i])]
\* x + s, x - s ... with x a scalar: broadcast over the rows
SAddScalar(x, s) == [i \in 1..Len(s) |-> Add(x, s[i])]
SSubScalar(s, x) == [i \in 1..Len(s) |-> Sub(s[i], x)]
SDivScalar(s, x) == [i \in 1..Len(s) |-> Div(s[i], x)]

\* s.shift(1): every row moves down one place, row 0 becomes NaN, the last
\* value falls off.
Shift(s) == [i \in 1..Len(s) |-> IF i = 1 THEN NaN ELSE s[i - 1]]

IsDefined(x) == ~x.nan

\* s.dropna()
DropNa(s) == SelectSeq(s, IsDefined)

RECURSIVE SumSeq(_)
SumSeq(s) == IF s = <<>> THEN Zero ELSE Add(Head(s), SumSeq(Tail(s)))

\* A faulty variant of Sum: a sum that does not skip NaN (numpy's sum of a bare array).
SumPropagate(s) == SumSeq(s)

\* s.sum(), np.sum(s): pandas skips NaN (skipna=True); the sum of no values
\* is 0.
Sum(s) == SumSeq(DropNa(s))

\* A faulty variant of Var: the NaN rows are left out of the sums but counted in the
\* mean and in the divisor.
VarCountAll(s, ddof) ==
    LET x == DropNa(s)
        count == Len(s)
        mean == Div(SumSeq(x), Num(count, 1))
        sqr == SSquare(SSubScalar(x, mean))
    IN  IF count - ddof <= 0 THEN NaN
        ELSE Div(SumSeq(sqr), Num(count - ddof, 1))

\* s.var(ddof=ddof): pandas skips NaN; NaN when ddof values or fewer remain.
Var(s, ddof) ==
    LET x == DropNa(s)
        count == Len(x)
        mean == Div(SumSeq(x), Num(count, 1))
        sqr == SSquare(SSubScalar(x, mean))
    IN  IF count - ddof <= 0 THEN NaN
        ELSE Div(SumSeq(sqr), Num(count - ddof, 1))

\* np.std(s, ddof=ddof): numpy hands a Series to Series.std
Std(s, ddof) == Sqrt(Var(s, ddof))

(***************************************************************************)
(* volatility.py                                                           *)
(***************************************************************************)
overnight_returns(o, c) == SLog(SDiv(o, Shift(c)))

intraday_returns(o, c) == SLog(SDiv(c, o))

intraday_range(h, l) == SLog(SDiv(h, l))

\* A faulty variant of log_returns: the undefined leading row is kept.
log_returns_keepna(values) == SLog(SDiv(values, Shift(values)))

log_returns(values) == DropNa(SLog(SDiv(values, Shift(values))))

\* A faulty variant of close_to_close: np.std's default ddof=0.
close_to_close_ddof0(close_values) ==
    LET log_return == SLog(SDiv(close_values, Shift(close_values)))
    IN  Std(log_return, 0)

close_to_close(close_values) ==
    LET log_return == SLog(SDiv(close_values, Shift(close_values)))
    IN  Std(log_return, 1)

\* A faulty variant of parkinson_vol: the divisor lacks the number of rows.
parkinson_vol_noN(hi, low) ==
    LET ranges == SSquare(intraday_range(hi, low))
        var == Div(Sum(ranges), Mul(Num(4, 1), Ln2))
    IN  Sqrt(var)

parkinson_vol(hi, low) ==
    LET ranges == SSquare(intraday_range(hi, low))
        var == Div(Sum(ranges), Mul(Num(4 * Len(ranges), 1), Ln2))
    IN  Sqrt(var)

\* 2 * np.log(2) - 1
GKCoef == Sub(Mul(Num(2, 1), Ln2), Num(1, 1))

garman_klass(o, h, l, c) ==
    LET ranges == SSquare(intraday_range(h, l))
        intraday_R == SSquare(intraday_returns(c, o))
        var == Sub(Mul(Num(5, 10), Sum(ranges)), Mul(GKCoef, Sum(intraday_R)))
    IN  Sqrt(Div(var, Num(Len(ranges), 1)))

\* irange / 2.0 is not summed: var, and so the result, is a Series with one
\* value per row.
garman_klass_ext(o, h, l, c) ==
    LET oR == SSquare(overnight_returns(o, c))
        iR == SSquare(intraday_returns(o, c))
        irange == SSquare(intraday_range(h, l))
        var == SSubScalar(SAddScalar(Sum(oR), SDivScalar(irange, Num(2, 1))),
                          Mul(GKCoef, Sum(iR)))
    IN  SSqrt(SDivScalar(var, Num(Len(o), 1)))

\* A faulty variant of rodgers_satchell: low_ref takes ln(H/O) for ln(L/O).
rodgers_satchell_typo(o, h, l, c) ==
    LET high_ref == SMul(SLog(SDiv(h, c)), SLog(SDiv(h, o)))
        low_ref == SMul(SLog(SDiv(l, c)), SLog(SDiv(h, o)))
    IN  Sqrt(Div(Add(Sum(high_ref), Sum(low_ref)), Num(Len(o), 1)))

rodgers_satchell(o, h, l, c) ==
    LET high_ref == SMul(SLog(SDiv(h, c)), SLog(SDiv(h, o)))
        low_ref == SMul(SLog(SDiv(l, c)), SLog(SDiv(l, o)))
    IN  Sqrt(Div(Add(Sum(high_ref), Sum(low_ref)), Num(Len(o), 1)))

\* What Python raises on n / 0 with n and 0 of type int.
ZeroDivisionError == [exc |-> "ZeroDivisionError"]

\* A faulty variant of PyDiv: a division by zero yields NaN and raises nothing.
PyDivNaN(n, d) == IF d = 0 THEN NaN ELSE Num(n, d)

\* A faulty variant of PyDiv: Python 2's truncating division of two ints.
PyDivFloor(n, d) == IF d = 0 THEN ZeroDivisionError ELSE Num(n \div d, 1)

\* n / d of two Python ints: true division, ZeroDivisionError on d = 0.
PyDiv(n, d) == IF d = 0 THEN ZeroDivisionError ELSE Num(n, d)

yang_zhang(o, h, l, c) ==
    LET N == Len(o)
        q == PyDiv(N + 1, N - 1)
    IN  IF q = ZeroDivisionError THEN ZeroDivisionError
        ELSE
        LET k == Div(Num(34, 100), Add(Num(134, 100), q))
            overnight_var == Var(overnight_returns(o, c), 1)
            intraday_var == Var(intraday_returns(o, c), 1)
            rs_var == Pow2(rodgers_satchell(o, h, l, c))
            var == Add(Add(overnight_var, Mul(k, intraday_var)),
                       Mul(Sub(Num(1, 1), k), rs_var))
        IN  Sqrt(var)

(***************************************************************************)
(* Inputs                                                                  *)
(***************************************************************************)
\* The longest input, in rows.
MaxN == 4

\* The daily bars <<open, high, low, close>> the inputs are made of: two
\* flat days, three well-formed bars (low <= open, close <= high), one bar
\* whose open lies above its high and one whose close does.
Bars ==
    { <<1, 1, 1, 1>>, <<2, 2, 2, 2>>,
      <<1, 2, 1, 2>>, <<2, 4, 1, 2>>, <<2, 4, 2, 4>>,
      <<4, 2, 1, 1>>, <<1, 2, 1, 4>> }

Price(n) == Num(n, 1)

\* Column j (1 = open, 2 = high, 3 = low, 4 = close) of a sequence of bars,
\* as a Series of prices.
Column(bars, j) == [i \in 1..Len(bars) |-> Price(bars[i][j])]

BarSeqs == UNION { [1..n -> Bars] : n \in 1..MaxN }

Scalar(x) == [kind |-> "scalar", val |-> x]
Series(s) == [kind |-> "series", val |-> s]
Raised(e) == [kind |-> "raise", val |-> e]

Init ==
    /\ \E bars \in BarSeqs :
        /\ O = Column(bars, 1)
        /\ H = Column(bars, 2)
        /\ L = Column(bars, 3)
        /\ C = Column(bars, 4)
    /\ call = "none"
    /\ ret = Raised("none")

\* One call of a function of the module on the inputs: the functions keep no
\* state, so a behaviour is the inputs followed by one call and its result.
OvernightReturns ==
    /\ call = "none"
    /\ call' = "overnight_returns"
    /\ ret' = Series(overnight_returns(O, C))
    /\ UNCHANGED <<O, H, L, C>>

IntradayReturns ==
    /\ call = "none"
    /\ call' = "intraday_returns"
    /\ ret' = Series(intraday_returns(O, C))
    /\ UNCHANGED <<O, H, L, C>>

IntradayRange ==
    /\ call = "none"
    /\ call' = "intraday_range"
    /\ ret' = Series(intraday_range(H, L))
    /\ UNCHANGED <<O, H, L, C>>

LogReturns ==
    /\ call = "none"
    /\ call' = "log_returns"
    /\ ret' = Series(log_returns(C))
    /\ UNCHANGED <<O, H, L, C>>

CloseToClose ==
    /\ call = "none"
    /\ call' = "close_to_close"
    /\ ret' = Scalar(close_to_close(C))
    /\ UNCHANGED <<O, H, L, C>>

ParkinsonVol ==
    /\ call = "none"
    /\ call' = "parkinson_vol"
    /\ ret' = Scalar(parkinson_vol(H, L))
    /\ UNCHANGED <<O, H, L, C>>

GarmanKlass ==
    /\ call = "none"
    /\ call' = "garman_klass"
    /\ ret' = Scalar(garman_klass(O, H, L, C))
    /\ UNCHANGED <<O, H, L, C>>

GarmanKlassExt ==
    /\ call = "none"
    /\ call' = "garman_klass_ext"
    /\ ret' = Series(garman_klass_ext(O, H, L, C))
    /\ UNCHANGED <<O, H, L, C>>

RodgersSatchell ==
    /\ call = "none"
    /\ call' = "rodgers_satchell"
    /\ ret' = Scalar(rodgers_satchell(O, H, L, C))
    /\ UNCHANGED <<O, H, L, C>>

\* A ZeroDivisionError leaves the call without a value.
OrRaised(r) == IF r = ZeroDivisionError THEN Raised(r) ELSE Scalar(r)

YangZhang ==
    /\ call = "none"
    /\ call' = "yang_zhang"
    /\ ret' = OrRaised(yang_zhang(O, H, L, C))
    /\ UNCHANGED <<O, H, L, C>>

Next ==
    \/ OvernightReturns
    \/ IntradayReturns
    \/ IntradayRange
    \/ LogReturns
    \/ CloseToClose
    \/ ParkinsonVol
    \/ GarmanKlass
    \/ GarmanKlassExt
    \/ RodgersSatchell
    \/ YangZhang

Spec == Init /\ [][Next]_vars

(***************************************************************************)
(* pandas DataFrame: a sequence of columns.  Elementwise arithmetic works  *)
(* on every cell; sum, var and std reduce down the rows (axis 0) and give  *)
(* a Series with one value per column (np.sum and np.std of a DataFrame    *)
(* call its sum and std, which reduce down the rows); a DataFrame and such *)
(* a Series combine column by column, the Series value broadcast over the  *)
(* rows.                                                                   *)
(***************************************************************************)
FDiv(F, G) == [j \in 1..Len(F) |-> SDiv(F[j], G[j])]
FMul(F, G) == [j \in 1..Len(F) |-> SMul(F[j], G[j])]
FLog(F) == [j \in 1..Len(F) |-> SLog(F[j])]
FSquare(F) == [j \in 1..Len(F) |-> SSquare(F[j])]
FSqrt(F) == [j \in 1..Len(F) |-> SSqrt(F[j])]
FShift(F) == [j \in 1..Len(F) |-> Shift(F[j])]
FDivScalar(F, x) == [j \in 1..Len(F) |-> SDivScalar(F[j], x)]
FSum(F) == [j \in 1..Len(F) |-> Sum(F[j])]
FVar(F, ddof) == [j \in 1..Len(F) |-> Var(F[j], ddof)]
FStd(F, ddof) == [j \in 1..Len(F) |-> Std(F[j], ddof)]
\* s + F and F - s, s a Series indexed by the columns of F
FAddCols(s, F) == [j \in 1..Len(F) |-> SAddScalar(s[j], F[j])]
FSubCols(F, s) == [j \in 1..Len(F) |-> SSubScalar(F[j], s[j])]
\* F.shape[0]
Shape0(F) == Len(F[1])

\* Series with Series, and scalar with Series
SAdd(s, t) == [i \in 1..Len(s) |-> Add(s[i], t[i])]
SSub(s, t) == [i \in 1..Len(s) |-> Sub(s[i], t[i])]
SMulScalar(x, s) == [i \in 1..Len(s) |-> Mul(x, s[i])]
SPow2(s) == [i \in 1..Len(s) |-> Pow2(s[i])]

(***************************************************************************)
(* volatility.py on DataFrames                                             *)
(***************************************************************************)
overnight_returns_df(o, c) == FLog(FDiv(o, FShift(c)))

intraday_returns_df(o, c) == FLog(FDiv(c, o))

intraday_range_df(h, l) == FLog(FDiv(h, l))

close_to_close_df(close_values) ==
    LET log_return == FLog(FDiv(close_values, FShift(close_values)))
    IN  FStd(log_return, 1)

parkinson_vol_df(hi, low) ==
    LET ranges == FSquare(intraday_range_df(hi, low))
        var == SDivScalar(FSum(ranges), Mul(Num(4 * Shape0(ranges), 1), Ln2))
    IN  SSqrt(var)

garman_klass_df(o, h, l, c) ==
    LET ranges == FSquare(intraday_range_df(h, l))
        intraday_R == FSquare(intraday_returns_df(c, o))
        var == SSub(SMulScalar(Num(5, 10), FSum(ranges)),
                    SMulScalar(GKCoef, FSum(intraday_R)))
    IN  SSqrt(SDivScalar(var, Num(Shape0(ranges), 1)))

\* irange / 2.0 is a DataFrame: so are var and the result.
garman_klass_ext_df(o, h, l, c) ==
    LET oR == FSquare(overnight_returns_df(o, c))
        iR == FSquare(intraday_returns_df(o, c))
        irange == FSquare(intraday_range_df(h, l))
        var == FSubCols(FAddCols(FSum(oR), FDivScalar(irange, Num(2, 1))),
                        SMulScalar(GKCoef, FSum(iR)))
    IN  FSqrt(FDivScalar(var, Num(Shape0(o), 1)))

rodgers_satchell_df(o, h, l, c) ==
    LET high_ref == FMul(FLog(FDiv(h, c)), FLog(FDiv(h, o)))
        low_ref == FMul(FLog(FDiv(l, c)), FLog(FDiv(l, o)))
    IN  SSqrt(SDivScalar(SAdd(FSum(high_ref), FSum(low_ref)), Num(Shape0(o), 1)))

yang_zhang_df(o, h, l, c) ==
    LET N == Shape0(o)
        q == PyDiv(N + 1, N - 1)
    IN  IF q = ZeroDivisionError THEN ZeroDivisionError
        ELSE
        LET k == Div(Num(34, 100), Add(Num(134, 100), q))
            overnight_var == FVar(overnight_returns_df(o, c), 1)
            intraday_var == FVar(intraday_returns_df(o, c), 1)
            rs_var == SPow2(rodgers_satchell_df(o, h, l, c))
            var == SAdd(SAdd(overnight_var, SMulScalar(k, intraday_var)),
                        SMulScalar(Sub(Num(1, 1), k), rs_var))
        IN  SSqrt(var)

\* The columns and the most rows of a tabular input.
TableCols == 2
TableRows == 2

\* Column j of the four tables made of one sequence of bars for each
\* instrument.
Table(instruments, j) ==
    [m \in 1..Len(instruments) |-> Column(instruments[m], j)]

Tables ==
    UNION { [1..TableCols -> [1..n -> Bars]] : n \in 1..TableRows }

PerColumn(s) == [kind |-> "percol", val |-> s]
Frame(F) == [kind |-> "frame", val |-> F]

InitT ==
    /\ \E t \in Tables :
        /\ O = Table(t, 1)
        /\ H = Table(t, 2)
        /\ L = Table(t, 3)
        /\ C = Table(t, 4)
    /\ call = "none"
    /\ ret = Raised("none")

CloseToCloseT ==
    /\ call = "none"
    /\ call' = "close_to_close"
    /\ ret' = PerColumn(close_to_close_df(C))
    /\ UNCHANGED <<O, H, L, C>>

ParkinsonVolT ==
    /\ call = "none"
    /\ call' = "parkinson_vol"
    /\ ret' = PerColumn(parkinson_vol_df(H, L))
    /\ UNCHANGED <<O, H, L, C>>

GarmanKlassT ==
    /\ call = "none"
    /\ call' = "garman_klass"
    /\ ret' = PerColumn(garman_klass_df(O, H, L, C))
    /\ UNCHANGED <<O, H, L, C>>

GarmanKlassExtT ==
    /\ call = "none"
    /\ call' = "garman_klass_ext"
    /\ ret' = Frame(garman_klass_ext_df(O, H, L, C))
    /\ UNCHANGED <<O, H, L, C>>

RodgersSatchellT ==
    /\ call = "none"
    /\ call' = "rodgers_satchell"
    /\ ret' = PerColumn(rodgers_satchell_df(O, H, L, C))
    /\ UNCHANGED <<O, H, L, C>>

OrRaisedT(r) == IF r = ZeroDivisionError THEN Raised(r) ELSE PerColumn(r)

YangZhangT ==
    /\ call = "none"
    /\ call' = "yang_zhang"
    /\ ret' = OrRaisedT(yang_zhang_df(O, H, L, C))
    /\ UNCHANGED <<O, H, L, C>>

NextT ==
    \/ CloseToCloseT
    \/ ParkinsonVolT
    \/ GarmanKlassT
    \/ GarmanKlassExtT
    \/ RodgersSatchellT
    \/ YangZhangT

SpecT == InitT /\ [][NextT]_vars

(***************************************************************************)
(* The expected values, written from the formulas with integer and         *)
(* rational arithmetic only: the base-2 logarithm of a price is an         *)
(* integer, ln(x/y) = (Lg(x) - Lg(y)) * ln 2.                              *)
(***************************************************************************)
Lg(x) == Log2Int(x.a[1]) - Log2Int(x.a[2])

\* ln(x[i] / y[j]) in units of ln 2
LnRatio(x, i, y, j) == Lg(x[i]) - Lg(y[j])

RECURSIVE SumTo(_, _)
SumTo(f, n) == IF n = 0 THEN 0 ELSE f[n] + SumTo(f, n - 1)

\* r * ln 2, r * (ln 2)^2 for a rational r
TimesLn2(r) == IF r = R0 THEN Zero
               ELSE [nan |-> FALSE, rt |-> FALSE, p |-> 1, a |-> r, b |-> R0]

\* sqrt((ln 2)^p * (a + b * ln 2)): NaN when the radicand is negative
RootOf(p, a, b) ==
    IF SignAB(a, b) < 0 THEN NaN
    ELSE IF SignAB(a, b) = 0 THEN Zero
    ELSE IF a = R0 THEN [nan |-> FALSE, rt |-> TRUE, p |-> p + 1, a |-> b, b |-> R0]
    ELSE [nan |-> FALSE, rt |-> TRUE, p |-> p, a |-> a, b |-> b]

\* The Bessel-corrected sample variance of the integers d[1..m], m >= 2:
\* sum (d_i - mean)^2 / (m - 1) = (m * sum d_i^2 - (sum d_i)^2) / (m * (m - 1))
BesselVar(d, m) ==
    Rat(m * SumTo([i \in 1..m |-> d[i] * d[i]], m) - SumTo(d, m) * SumTo(d, m),
        m * (m - 1))

Rows == Len(O)

ConstantInput ==
    \A i \in 1..Rows : O[i] = O[1] /\ H[i] = O[1] /\ L[i] = O[1] /\ C[i] = O[1]

\* low <= open <= high and low <= close <= high on every row
WellFormed ==
    \A i \in 1..Rows :
        /\ Lg(L[i]) <= Lg(O[i]) /\ Lg(O[i]) <= Lg(H[i])
        /\ Lg(L[i]) <= Lg(C[i]) /\ Lg(C[i]) <= Lg(H[i])

(***************************************************************************)
(* C4: log_returns returns n-1 defined values, the i-th being              *)
(* ln(values_i / values_{i-1}) (none when n = 1); overnight_returns,       *)
(* intraday_returns and intraday_range return n values, of which only      *)
(* position 0 of overnight_returns is undefined.                           *)
(***************************************************************************)
C4_Lengths ==
    /\ call = "log_returns" =>
        /\ ret.kind = "series"
        /\ Len(ret.val) = Rows - 1
        /\ \A i \in 1..(Rows - 1) :
              ret.val[i] = TimesLn2(Rat(LnRatio(C, i + 1, C, i), 1))
    /\ call = "overnight_returns" =>
        /\ ret.kind = "series"
        /\ Len(ret.val) = Rows
        /\ ret.val[1].nan
        /\ \A i \in 2..Rows :
              ret.val[i] = TimesLn2(Rat(LnRatio(O, i, C, i - 1), 1))
    /\ call = "intraday_returns" =>
        /\ ret.kind = "series"
        /\ Len(ret.val) = Rows
        /\ \A i \in 1..Rows :
              ret.val[i] = TimesLn2(Rat(LnRatio(C, i, O, i), 1))
    /\ call = "intraday_range" =>
        /\ ret.kind = "series"
        /\ Len(ret.val) = Rows
        /\ \A i \in 1..Rows :
              ret.val[i] = TimesLn2(Rat(LnRatio(H, i, L, i), 1))

\* log_returns of three closes 1, 2, 1: the two returns ln 2 and -ln 2
C4_Witness ==
    /\ call = "log_returns"
    /\ Rows = 3
    /\ ret.val = <<TimesLn2(Rat(1, 1)), TimesLn2(Rat(-1, 1))>>

(***************************************************************************)
(* C5: for n >= 3 closes, close_to_close is the Bessel-corrected sample    *)
(* standard deviation of the n-1 values of log_returns: the squared        *)
(* deviations from their mean, summed and divided by (n-1)-1.              *)
(***************************************************************************)
\* a log return r = d * ln 2 as the integer d
Units(r) == IF r = Zero THEN 0 ELSE r.a[1]

C5_SampleStd ==
    (call = "close_to_close" /\ Rows >= 3) =>
        LET r == log_returns(C)
            d == [i \in 1..Len(r) |-> Units(r[i])]
        IN  /\ Len(r) = Rows - 1
            /\ ret = Scalar(RootOf(2, BesselVar(d, Rows - 1), R0))

C5_Witness ==
    /\ call = "close_to_close"
    /\ Rows = 4
    /\ ret.kind = "scalar"
    /\ ~ret.val.nan
    /\ ret.val # Zero

(***************************************************************************)
(* C6: with hi >= low > 0 on every row, parkinson_vol is                   *)
(* sqrt(sum ln(hi_i/low_i)^2 / (4 N ln 2)), a defined value >= 0.          *)
(***************************************************************************)
C6_Parkinson ==
    (call = "parkinson_vol" /\ \A i \in 1..Rows : Lg(H[i]) >= Lg(L[i])) =>
        LET S == SumTo([i \in 1..Rows |-> LnRatio(H, i, L, i) * LnRatio(H, i, L, i)],
                       Rows)
        IN  /\ ret = Scalar(RootOf(1, Rat(S, 4 * Rows), R0))
            /\ ~ret.val.nan
            /\ Sign(ret.val) >= 0

C6_Witness ==
    /\ call = "parkinson_vol"
    /\ Rows = 2
    /\ ret.kind = "scalar"
    /\ ~ret.val.nan
    /\ Sign(ret.val) > 0

(***************************************************************************)
(* Sums of the formulas, in units of (ln 2)^2                              *)
(***************************************************************************)
\* sum of the squared overnight returns ln(O_i / C_{i-1})^2, rows 1..N-1
SumOvernightSq ==
    SumTo([i \in 1..(Rows - 1) |->
              LnRatio(O, i + 1, C, i) * LnRatio(O, i + 1, C, i)], Rows - 1)

\* sum of the squared intraday returns ln(C_i / O_i)^2
SumIntradaySq ==
    SumTo([i \in 1..Rows |-> LnRatio(C, i, O, i) * LnRatio(C, i, O, i)], Rows)

\* the squared intraday range ln(H_i / L_i)^2 of row i
RangeSq(i) == LnRatio(H, i, L, i) * LnRatio(H, i, L, i)

SumRangeSq == SumTo([i \in 1..Rows |-> RangeSq(i)], Rows)

\* sum of ln(H/C)*ln(H/O) + ln(L/C)*ln(L/O) over the rows
HighRef(i) == LnRatio(H, i, C, i) * LnRatio(H, i, O, i)
LowRef(i) == LnRatio(L, i, C, i) * LnRatio(L, i, O, i)
SumRS == SumTo([i \in 1..Rows |-> HighRef(i) + LowRef(i)], Rows)

Estimators ==
    { "close_to_close", "parkinson_vol", "garman_klass", "garman_klass_ext",
      "rodgers_satchell", "yang_zhang" }

(***************************************************************************)
(* C1: for N >= 2 rows garman_klass_ext returns one scalar,                *)
(* sqrt((sum(oR) + sum(irange)/2 - (2 ln 2 - 1) sum(iR)) / N), every term  *)
(* summed over the rows.  (The code leaves irange unsummed and returns one *)
(* value per row.)                                                         *)
(***************************************************************************)
C1_ScalarResult ==
    (call = "garman_klass_ext" /\ Rows >= 2) =>
        /\ ret.kind = "scalar"
        /\ ret.val = RootOf(2,
               Rat(2 * SumOvernightSq + SumRangeSq + 2 * SumIntradaySq, 2 * Rows),
               Rat(-2 * SumIntradaySq, Rows))

(***************************************************************************)
(* C2, as claimed: on a constant input of N >= 2 rows each of the six      *)
(* estimators returns exactly 0.                                           *)
(***************************************************************************)
C2_Original ==
    (ConstantInput /\ Rows >= 2 /\ call \in Estimators) =>
        /\ ret.kind = "scalar"
        /\ ret.val = Zero

(***************************************************************************)
(* C2, amended: on a constant input of N >= 3 rows close_to_close,         *)
(* parkinson_vol, garman_klass, rodgers_satchell and yang_zhang return     *)
(* exactly 0 and garman_klass_ext returns 0 on each of its N rows; at      *)
(* N = 2 close_to_close and yang_zhang return NaN (the sample variance of  *)
(* the single defined return) and the other four are as for N >= 3.        *)
(***************************************************************************)
C2_Amended ==
    (ConstantInput /\ Rows >= 2) =>
        /\ call \in {"parkinson_vol", "garman_klass", "rodgers_satchell"} =>
              ret.kind = "scalar" /\ ret.val = Zero
        /\ call \in {"close_to_close", "yang_zhang"} =>
              ret.kind = "scalar" /\ ret.val = (IF Rows = 2 THEN NaN ELSE Zero)
        /\ call = "garman_klass_ext" =>
              ret.kind = "series" /\ ret.val = [i \in 1..Rows |-> Zero]

C2_Witness ==
    /\ ConstantInput
    /\ Rows = 3
    /\ call = "yang_zhang"
    /\ ret.kind = "scalar"
    /\ ret.val = Zero

(***************************************************************************)
(* C3, as claimed: yang_zhang on one observation returns NaN and raises    *)
(* nothing.                                                                *)
(***************************************************************************)
C3_Original ==
    (call = "yang_zhang" /\ Rows = 1) =>
        /\ ret.kind = "scalar"
        /\ ret.val = NaN

(***************************************************************************)
(* C3, amended: yang_zhang on one observation raises ZeroDivisionError     *)
(* (the int division (N+1)/(N-1) by zero) and returns no value at all.     *)
(***************************************************************************)
C3_Raises ==
    (call = "yang_zhang" /\ Rows = 1) =>
        /\ ret.kind = "raise"
        /\ ret.val = ZeroDivisionError

C3_Witness ==
    /\ call = "yang_zhang"
    /\ Rows = 1
    /\ ret.kind = "raise"

(***************************************************************************)
(* C8: for N >= 2 rows yang_zhang is                                       *)
(* sqrt(overnight_var + k*intraday_var + (1-k)*rs_var) with                *)
(* k = 0.34 / (1.34 + (N+1)/(N-1)) in real division, the two variances     *)
(* Bessel-corrected, and rs_var the square of rodgers_satchell.            *)
(***************************************************************************)
YZk == RDiv(Rat(34, 100), RAdd(Rat(134, 100), Rat(Rows + 1, Rows - 1)))

\* The variance of the overnight returns: N-1 of them are defined, so it
\* is undefined at N = 2.
YZExpected ==
    LET on == [i \in 1..(Rows - 1) |-> LnRatio(O, i + 1, C, i)]
        intra == [i \in 1..Rows |-> LnRatio(C, i, O, i)]
    IN  IF Rows - 1 < 2 \/ SumRS < 0 THEN NaN
        ELSE RootOf(2,
                 RAdd(RAdd(BesselVar(on, Rows - 1),
                           RMul(YZk, BesselVar(intra, Rows))),
                      RMul(RSub(R1, YZk), Rat(SumRS, Rows))),
                 R0)

C8_YangZhang ==
    (call = "yang_zhang" /\ Rows >= 2) =>
        /\ ret.kind = "scalar"
        /\ ret.val = YZExpected

C8_Witness ==
    /\ call = "yang_zhang"
    /\ Rows = 4
    /\ ret.kind = "scalar"
    /\ ~ret.val.nan
    /\ ret.val # Zero
    /\ BesselVar([i \in 1..Rows |-> LnRatio(C, i, O, i)], Rows) # Rat(SumRS, Rows)

(***************************************************************************)
(* C9, as claimed: the undefined position 0 of the squared overnight       *)
(* returns makes their sum, and so every value garman_klass_ext returns,   *)
(* undefined.                                                              *)
(***************************************************************************)
C9_Original ==
    call = "garman_klass_ext" =>
        /\ Sum(SSquare(overnight_returns(O, C))).nan
        /\ \A i \in 1..Len(ret.val) : ret.val[i].nan

(***************************************************************************)
(* C9, amended: the squared overnight returns keep their undefined         *)
(* position 0, but the sum skips it: sum(oR) is the defined sum over rows  *)
(* 1..N-1 (0 when N = 1), and row i of the result is                       *)
(* sqrt((sum(oR) + irange_i/2 - (2 ln 2 - 1) sum(iR)) / N), undefined only *)
(* where that radicand is negative.                                        *)
(***************************************************************************)
GKExtExpected(i) ==
    RootOf(2,
        Rat(2 * SumOvernightSq + RangeSq(i) + 2 * SumIntradaySq, 2 * Rows),
        Rat(-2 * SumIntradaySq, Rows))

C9_SumSkipsNaN ==
    call = "garman_klass_ext" =>
        LET oR == SSquare(overnight_returns(O, C))
        IN  /\ oR[1].nan
            /\ Sum(oR) = Mul(Num(SumOvernightSq, 1), Mul(Ln2, Ln2))
            /\ ret.kind = "series"
            /\ Len(ret.val) = Rows
            /\ \A i \in 1..Rows : ret.val[i] = GKExtExpected(i)

C9_Witness ==
    /\ call = "garman_klass_ext"
    /\ Rows >= 2
    /\ SumOvernightSq > 0
    /\ \A i \in 1..Rows : ~ret.val[i].nan

(***************************************************************************)
(* C10: on well-formed bars (L <= O <= H and L <= C <= H on every row)     *)
(* every ln(H/C)*ln(H/O) and ln(L/C)*ln(L/O) is >= 0 and rodgers_satchell  *)
(* returns a defined value >= 0; it is undefined only when some open or    *)
(* close lies outside [L, H].                                              *)
(***************************************************************************)
C10_RodgersSatchell ==
    call = "rodgers_satchell" =>
        /\ ret.kind = "scalar"
        /\ ret.val = RootOf(2, Rat(SumRS, Rows), R0)
        /\ WellFormed =>
              /\ \A i \in 1..Rows : HighRef(i) >= 0 /\ LowRef(i) >= 0
              /\ ~ret.val.nan
              /\ Sign(ret.val) >= 0
        /\ ret.val.nan => ~WellFormed

C10_Witness ==
    /\ call = "rodgers_satchell"
    /\ WellFormed
    /\ Rows >= 2
    /\ ret.kind = "scalar"
    /\ ~ret.val.nan
    /\ Sign(ret.val) > 0

\* rodgers_satchell does return NaN on a bar whose open lies above its high
C10_UndefinedReached ==
    /\ call = "rodgers_satchell"
    /\ ret.kind = "scalar"
    /\ ret.val.nan

(***************************************************************************)
(* C7: on a tabular input every estimator returns exactly one scalar per   *)
(* column, the value the estimator returns on that column alone.  (A       *)
(* property of SpecT, the tabular inputs.  garman_klass_ext returns a      *)
(* table of one value per row and column.)                                 *)
(***************************************************************************)
\* The estimator called on column j alone
OnColumn(name, j) ==
    CASE name = "close_to_close" -> close_to_close(C[j])
      [] name = "parkinson_vol" -> parkinson_vol(H[j], L[j])
      [] name = "garman_klass" -> garman_klass(O[j], H[j], L[j], C[j])
      [] name = "garman_klass_ext" -> garman_klass_ext(O[j], H[j], L[j], C[j])
      [] name = "rodgers_satchell" -> rodgers_satchell(O[j], H[j], L[j], C[j])
      [] name = "yang_zhang" -> yang_zhang(O[j], H[j], L[j], C[j])

C7_ScalarPerColumn ==
    (call \in Estimators /\ ret.kind # "raise") =>
        /\ ret.kind = "percol"
        /\ Len(ret.val) = Len(O)
        /\ \A j \in 1..Len(O) : ret.val[j] = OnColumn(call, j)

\* What does hold of the code: a column of the result, whatever its shape,
\* is the result of the estimator on that column alone.
C7_ColumnsIndependent ==
    (call \in Estimators /\ ret.kind # "raise") =>
        /\ Len(ret.val) = Len(O)
        /\ \A j \in 1..Len(O) : ret.val[j] = OnColumn(call, j)

====
